---- MODULE Spec2Model ----
(***************************************************************************)
(* A model of the MCP client of microclaw (src/src/mcp.rs): the JSON-RPC   *)
(* request engine of a session (stdio and streamable HTTP), the connect    *)
(* handshake, call_tool, and the manager's load loop.                      *)
(***************************************************************************)
EXTENDS Integers, Sequences, FiniteSets, TLC

(***************************************************************************)
(* Bounds of the model.                                                    *)
(***************************************************************************)
\* the largest request id a session hands out (ids 1 and 2 go to the handshake)
MaxId == 4
\* the longest content array of a tools/call result
MaxItems == 3
\* the seconds up to which the model follows a write that does not complete
MaxStallSecs == 240

(***************************************************************************)
(* Program constants.                                                      *)
(***************************************************************************)
\* tokio::time::timeout(Duration::from_secs(30), McpServer::connect(..))
ConnectDeadlineSecs == 30
\* Instant::now() + Duration::from_secs(120) in the stdio read loop
StdioDeadlineSecs == 120
\* config.request_timeout_secs.unwrap_or(120)
DefaultTimeoutSecs == 120
\* const DEFAULT_PROTOCOL_VERSION
DEFAULT_PROTOCOL_VERSION == "2025-11-05"

(***************************************************************************)
(* serde_json::Value, as far as the client looks into it.                  *)
(***************************************************************************)
JNull == [kind |-> "null"]
JBool(b) == [kind |-> "bool", b |-> b]
JNum(n) == [kind |-> "number", n |-> n]
JStr(s) == [kind |-> "string", s |-> s]
JArr(items) == [kind |-> "array", items |-> items]
JObj(fields) == [kind |-> "object", fields |-> fields]
NoFields == [k \in {} |-> JNull]

\* Option<T>: None, or Some(v)
None == [kind |-> "none"]
Some(v) == [kind |-> "some", val |-> v]
IsSome(o) == o.kind # "none"

\* Value::get(key): Some(member) of an object that has the key, else None
Get(v, key) ==
    IF v.kind = "object" /\ key \in DOMAIN v.fields THEN v.fields[key] ELSE None

\* Option<&Value>::and_then(|v| v.as_str())
AsStr(o) == IF o.kind = "string" THEN o ELSE None

\* Option<&Value>::and_then(|v| v.as_bool())
AsBool(o) == IF o.kind = "bool" THEN o ELSE None

\* Value::as_array()
AsArray(o) == IF o.kind = "array" THEN o ELSE None

\* the keys of the modelled objects in the order of serde_json's map
SortedKeys ==
    <<"code", "content", "description", "error", "id", "inputSchema", "isError",
      "jsonrpc", "message", "method", "name", "protocolVersion", "result",
      "text", "tools", "type">>

RECURSIVE Indent(_)
Indent(depth) == IF depth = 0 THEN "" ELSE "  " \o Indent(depth - 1)

RECURSIVE PrettyItems(_, _, _)
RECURSIVE PrettyFields(_, _, _)
RECURSIVE Pretty(_, _)

\* serde_json::to_string_pretty: two-space indent, one member per line
Pretty(v, depth) ==
    CASE v.kind = "null" -> "null"
      [] v.kind = "bool" -> (IF v.b THEN "true" ELSE "false")
      [] v.kind = "number" -> ToString(v.n)
      [] v.kind = "string" -> "\"" \o v.s \o "\""
      [] v.kind = "array" ->
            IF v.items = <<>> THEN "[]"
            ELSE "[\n" \o PrettyItems(v.items, 1, depth + 1)
                       \o "\n" \o Indent(depth) \o "]"
      [] v.kind = "object" ->
            LET keys == SelectSeq(SortedKeys, LAMBDA k : k \in DOMAIN v.fields)
            IN  IF keys = <<>> THEN "{}"
                ELSE "{\n" \o PrettyFields(v.fields, keys, depth + 1)
                           \o "\n" \o Indent(depth) \o "}"

PrettyItems(items, i, depth) ==
    Indent(depth) \o Pretty(items[i], depth)
        \o (IF i = Len(items) THEN ""
            ELSE ",\n" \o PrettyItems(items, i + 1, depth))

PrettyFields(fields, keys, depth) ==
    Indent(depth) \o "\"" \o Head(keys) \o "\": " \o Pretty(fields[Head(keys)], depth)
        \o (IF Len(keys) = 1 THEN ""
            ELSE ",\n" \o PrettyFields(fields, Tail(keys), depth))

to_string_pretty(v) == Pretty(v, 0)

RECURSIVE CompactItems(_, _)
RECURSIVE CompactFields(_, _)
RECURSIVE Compact(_)

\* serde_json::Value's Display: the compact form
Compact(v) ==
    CASE v.kind = "null" -> "null"
      [] v.kind = "bool" -> (IF v.b THEN "true" ELSE "false")
      [] v.kind = "number" -> ToString(v.n)
      [] v.kind = "string" -> "\"" \o v.s \o "\""
      [] v.kind = "array" -> "[" \o CompactItems(v.items, 1) \o "]"
      [] v.kind = "object" ->
            "{" \o CompactFields(v.fields,
                      SelectSeq(SortedKeys, LAMBDA k : k \in DOMAIN v.fields)) \o "}"

CompactItems(items, i) ==
    IF i > Len(items) THEN ""
    ELSE Compact(items[i]) \o (IF i = Len(items) THEN "" ELSE ",")
             \o CompactItems(items, i + 1)

CompactFields(fields, keys) ==
    IF keys = <<>> THEN ""
    ELSE "\"" \o Head(keys) \o "\":" \o Compact(fields[Head(keys)])
             \o (IF Len(keys) = 1 THEN "" ELSE ",")
             \o CompactFields(fields, Tail(keys))

(***************************************************************************)
(* Result<String, String>                                                  *)
(***************************************************************************)
Ok(text) == [ok |-> TRUE, text |-> text]
Err(text) == [ok |-> FALSE, text |-> text]

(***************************************************************************)
(* McpServer::call_tool, after send_request has returned.                  *)
(***************************************************************************)
RECURSIVE ConcatText(_, _, _)
\* the loop over the content array: output after the items from i on
ConcatText(array, i, output) ==
    IF i > Len(array) THEN output
    ELSE LET text == AsStr(Get(array[i], "text"))
         IN  IF IsSome(text)
             THEN ConcatText(array, i + 1,
                     (IF output # "" THEN output \o "\n" ELSE output) \o text.s)
             ELSE ConcatText(array, i + 1, output)

\* result.get("isError").and_then(|v| v.as_bool()).unwrap_or(false)
IsErrorOf(result) ==
    LET b == AsBool(Get(result, "isError")) IN IF IsSome(b) THEN b.b ELSE FALSE

\* call_tool with the last branch returning Ok whatever is_error says
CallToolOutputPrettyAlwaysOk(result) ==
    LET is_error == IsErrorOf(result)
        array == AsArray(Get(result, "content"))
    IN  IF IsSome(array)
        THEN LET output == ConcatText(array.items, 1, "")
             IN  IF is_error THEN Err(output) ELSE Ok(output)
        ELSE Ok(to_string_pretty(result))

\* call_tool from `let is_error` on: the value for the result of a tools/call
CallToolOutput(result) ==
    LET is_error == IsErrorOf(result)
        array == AsArray(Get(result, "content"))
    IN  IF IsSome(array)
        THEN LET output == ConcatText(array.items, 1, "")
             IN  IF is_error THEN Err(output) ELSE Ok(output)
        ELSE LET output == to_string_pretty(result)
             IN  IF is_error THEN Err(output) ELSE Ok(output)

\* call_tool's value for what send_request returned (the `?` passes an Err on)
CallToolReturn(r) == IF r.ok THEN CallToolOutput(r.val) ELSE Err(r.text)

(***************************************************************************)
(* Result<serde_json::Value, String> of send_request                       *)
(***************************************************************************)
ROk(val) == [ok |-> TRUE, val |-> val]
RErr(text) == [ok |-> FALSE, text |-> text]

(***************************************************************************)
(* The configuration (McpConfig, McpServerConfig) after parsing.           *)
(***************************************************************************)
Servers == {"a", "b"}

\* str::trim on the strings of the model
Trim(s) == CASE s = "  " -> "" [] s = " STDIO " -> "STDIO" [] OTHER -> s

\* str::to_ascii_lowercase on the strings of the model
ToAsciiLowercase(s) == CASE s = "STDIO" -> "stdio" [] s = "HTTP" -> "http" [] OTHER -> s

\* a request_timeout_secs a configuration sets
CfgTimeoutSecs == 2 * ConnectDeadlineSecs

McpServerConfig(transport, command, endpoint, timeout, version) ==
    [transport |-> transport, command |-> command, endpoint |-> endpoint,
     request_timeout_secs |-> timeout, protocol_version |-> version]

\* the server entries the model draws from
StdioConfig == McpServerConfig("stdio", "npx", "", None, None)
StdioTimeoutConfig ==
    McpServerConfig(" STDIO ", "npx", "", JNum(CfgTimeoutSecs), JStr("2024-11-05"))
HttpConfig == McpServerConfig("HTTP", "", "http://h/mcp", None, None)
HttpTimeoutConfig ==
    McpServerConfig("streamable_http", "", "http://h/mcp", JNum(CfgTimeoutSecs), None)
BadConfigs ==
    { McpServerConfig("", "  ", "", None, None),
      McpServerConfig("http", "npx", "", None, None),
      McpServerConfig("sse", "npx", "http://h/mcp", None, None) }
ConfigSet ==
    {StdioConfig, StdioTimeoutConfig, HttpConfig, HttpTimeoutConfig} \cup BadConfigs

\* the manager's default taken before the server's own version
RequestedProtocolDefaultFirst(config, default_version) ==
    IF IsSome(default_version) THEN default_version.s
    ELSE IF IsSome(config.protocol_version) THEN config.protocol_version.s
    ELSE DEFAULT_PROTOCOL_VERSION

\* config.protocol_version.or_else(default).unwrap_or_else(DEFAULT_PROTOCOL_VERSION)
RequestedProtocol(config, default_version) ==
    IF IsSome(config.protocol_version) THEN config.protocol_version.s
    ELSE IF IsSome(default_version) THEN default_version.s
    ELSE DEFAULT_PROTOCOL_VERSION

\* config.request_timeout_secs.unwrap_or(120)
TimeoutSecs(config) ==
    IF IsSome(config.request_timeout_secs) THEN config.request_timeout_secs.n
    ELSE DefaultTimeoutSecs

\* a connect that builds the transport without a look at command or endpoint
TransportOfUnchecked(config) ==
    LET transport_name == ToAsciiLowercase(Trim(config.transport))
    IN  CASE transport_name \in {"stdio", ""} -> "stdio"
          [] transport_name \in {"streamable_http", "http"} -> "http"
          [] OTHER -> "config_error"

\* the match on transport_name in connect: which transport is built, if any
TransportOf(config) ==
    LET transport_name == ToAsciiLowercase(Trim(config.transport))
    IN  CASE transport_name \in {"stdio", ""} ->
               IF Trim(config.command) = "" THEN "config_error" ELSE "stdio"
          [] transport_name \in {"streamable_http", "http"} ->
               IF Trim(config.endpoint) = "" THEN "config_error" ELSE "http"
          [] OTHER -> "config_error"

(***************************************************************************)
(* serde_json::from_str::<McpConfig>: the derived Deserialize of McpConfig *)
(* and McpServerConfig on a JSON document.                                 *)
(***************************************************************************)
\* the member of object `obj` that one of `names` (a field's name and its
\* aliases) keys: absent, given twice ("dup"), or a value
FieldOf(obj, names) ==
    LET present == {k \in names : k \in DOMAIN obj.fields}
    IN  IF present = {} THEN [st |-> "absent", v |-> JNull]
        ELSE IF Cardinality(present) > 1 THEN [st |-> "dup", v |-> JNull]
        ELSE [st |-> "val", v |-> obj.fields[CHOOSE k \in present : TRUE]]

\* a decoded field: the value, or the failure of the parse
Dec(v) == [ok |-> TRUE, v |-> v]
DecErr == [ok |-> FALSE, v |-> JNull]

\* String with #[serde(default)] or #[serde(default = ..)]
DecString(f, default) ==
    IF f.st = "absent" THEN Dec(default)
    ELSE IF f.st = "val" /\ f.v.kind = "string" THEN Dec(f.v.s)
    ELSE DecErr

\* Option<String> with #[serde(default)]: null is None
DecOptString(f) ==
    IF f.st = "absent" THEN Dec(None)
    ELSE IF f.st = "val" /\ f.v.kind = "null" THEN Dec(None)
    ELSE IF f.st = "val" /\ f.v.kind = "string" THEN Dec(f.v)
    ELSE DecErr

\* Option<u64> with #[serde(default)]
DecOptU64(f) ==
    IF f.st = "absent" THEN Dec(None)
    ELSE IF f.st = "val" /\ f.v.kind = "null" THEN Dec(None)
    ELSE IF f.st = "val" /\ f.v.kind = "number" /\ f.v.n >= 0 THEN Dec(f.v)
    ELSE DecErr

\* Vec<String> with #[serde(default)]
DecStrings(f) ==
    IF f.st = "absent" THEN Dec(<<>>)
    ELSE IF /\ f.st = "val" /\ f.v.kind = "array"
            /\ \A i \in DOMAIN f.v.items : f.v.items[i].kind = "string"
    THEN Dec([i \in DOMAIN f.v.items |-> f.v.items[i].s])
    ELSE DecErr

\* HashMap<String, String> with #[serde(default)]
DecStringMap(f) ==
    IF f.st = "absent" THEN Dec([k \in {} |-> ""])
    ELSE IF /\ f.st = "val" /\ f.v.kind = "object"
            /\ \A k \in DOMAIN f.v.fields : f.v.fields[k].kind = "string"
    THEN Dec([k \in DOMAIN f.v.fields |-> f.v.fields[k].s])
    ELSE DecErr

\* the names a document can write the endpoint with, without the alias
EndpointNamesNoAlias == {"endpoint"}

\* #[serde(default, alias = "url")] pub endpoint
EndpointNames == {"endpoint", "url"}

\* Deserialize of McpServerConfig: Ok(config), or Err
ParseServerConfig(entry) ==
    IF entry.kind # "object" THEN RErr("invalid type")
    ELSE
    LET transport == DecString(FieldOf(entry, {"transport"}), "stdio")
        protocol_version ==
            DecOptString(FieldOf(entry, {"protocol_version", "protocolVersion"}))
        request_timeout_secs == DecOptU64(FieldOf(entry, {"request_timeout_secs"}))
        command == DecString(FieldOf(entry, {"command"}), "")
        args == DecStrings(FieldOf(entry, {"args"}))
        env == DecStringMap(FieldOf(entry, {"env"}))
        endpoint == DecString(FieldOf(entry, EndpointNames), "")
        headers == DecStringMap(FieldOf(entry, {"headers"}))
    IN  IF /\ transport.ok /\ protocol_version.ok /\ request_timeout_secs.ok
           /\ command.ok /\ args.ok /\ env.ok /\ endpoint.ok /\ headers.ok
        THEN ROk([transport |-> transport.v,
                  protocol_version |-> protocol_version.v,
                  request_timeout_secs |-> request_timeout_secs.v,
                  command |-> command.v, args |-> args.v, env |-> env.v,
                  endpoint |-> endpoint.v, headers |-> headers.v])
        ELSE RErr("invalid McpServerConfig")

\* Deserialize of McpConfig: Ok(config), or Err. mcpServers has no default.
ParseConfig(document) ==
    IF document.kind # "object" THEN RErr("invalid type")
    ELSE
    LET default_protocol_version ==
            DecOptString(FieldOf(document,
                                 {"default_protocol_version", "defaultProtocolVersion"}))
        mcp_servers == FieldOf(document, {"mcpServers"})
    IN  IF ~default_protocol_version.ok THEN RErr("invalid McpConfig")
        ELSE IF mcp_servers.st # "val" THEN RErr("missing field mcpServers")
        ELSE IF mcp_servers.v.kind # "object" THEN RErr("invalid type")
        ELSE LET entries == mcp_servers.v.fields
             IN  IF \E name \in DOMAIN entries : ~ParseServerConfig(entries[name]).ok
                 THEN RErr("invalid McpServerConfig")
                 ELSE ROk([default_protocol_version |-> default_protocol_version.v,
                           mcp_servers |-> [name \in DOMAIN entries |->
                                               ParseServerConfig(entries[name]).val]])

(***************************************************************************)
(* What a server can send: a line on the child's stdout, or an HTTP body.  *)
(***************************************************************************)
\* the error member of a response: a JsonRpcError, or something that is none
ErrObj == JObj([code |-> JNum(-32000), message |-> JStr("boom")])
BadErr == JStr("oops")

\* the results servers answer with
Payloads ==
    { JObj(NoFields),
      JObj([protocolVersion |-> JStr("2024-01-01")]),
      JObj([tools |-> JArr(<<JObj([name |-> JStr("read")]), JObj(NoFields)>>)]),
      JObj([tools |-> JStr("x")]),
      JObj([content |-> JArr(<<JObj([text |-> JStr("a")])>>)]),
      JObj([content |-> JArr(<<JObj([text |-> JStr("boom")])>>),
            isError |-> JBool(TRUE)]) }

\* the id member of a line: absent, not a number, or a number
LineIds == {None, JStr("1")} \cup {JNum(n) : n \in 1..MaxId}

\* a JSON object with these members (None: the member is absent)
JsonLines ==
    [kind : {"json"}, id : LineIds, result : {None} \cup Payloads,
     error : {None, ErrObj, BadErr}]

\* a line that is no JSON object. empty: only whitespace; garbage: not JSON;
\* scalar: JSON, but no object
OtherLine(kind) == [kind |-> kind, id |-> None, result |-> None, error |-> None]
OtherLines == {OtherLine("empty"), OtherLine("garbage"), OtherLine("scalar")}
NoLine == OtherLine("none")

Lines == OtherLines \cup JsonLines

\* the body of a line as a serde_json::Value
BodyValue(line) ==
    IF line.kind = "scalar" THEN JNum(7)
    ELSE LET keys == {k \in {"id", "result", "error"} : IsSome(line[k])}
         IN  JObj([k \in keys |-> line[k]])

\* serde_json::from_str::<JsonRpcResponse>: does the line deserialize
IsJsonRpcResponse(line) == line.kind = "json" /\ line.error # BadErr

\* format!("MCP error ({}): {}", err.code, err.message)
RpcErrorText(err) ==
    "MCP error (" \o ToString(err.fields.code.n) \o "): " \o err.fields.message.s

\* the read loop taking a line that is not JSON for a response without result
ReadVerdictTakesGarbage(line, id) ==
    IF line.kind = "empty" THEN "skip"
    ELSE IF line.kind = "garbage" THEN "ok"
    ELSE IF ~IsJsonRpcResponse(line) THEN "skip"
    ELSE LET is_response ==
                 IF line.id.kind = "number" THEN line.id.n = id
                 ELSE IsSome(line.result) \/ IsSome(line.error)
         IN  IF ~is_response THEN "skip"
             ELSE IF IsSome(line.error) THEN "err"
             ELSE "ok"

\* the read loop without the comparison of the id
ReadVerdictIgnoresId(line, id) ==
    IF line.kind = "empty" THEN "skip"
    ELSE IF ~IsJsonRpcResponse(line) THEN "skip"
    ELSE LET is_response == IsSome(line.result) \/ IsSome(line.error)
         IN  IF ~is_response THEN "skip"
             ELSE IF IsSome(line.error) THEN "err"
             ELSE "ok"

\* the read loop failing on any error response, whatever its id
ReadVerdictErrorAnyId(line, id) ==
    IF line.kind = "empty" THEN "skip"
    ELSE IF ~IsJsonRpcResponse(line) THEN "skip"
    ELSE IF IsSome(line.error) THEN "err"
    ELSE LET is_response ==
                 IF line.id.kind = "number" THEN line.id.n = id
                 ELSE IsSome(line.result)
         IN  IF ~is_response THEN "skip" ELSE "ok"

\* the read loop's verdict on one line read while awaiting `id`:
\* "skip" (continue), or the Result the request returns
ReadVerdict(line, id) ==
    IF line.kind = "empty" THEN "skip"
    ELSE IF ~IsJsonRpcResponse(line) THEN "skip"
    ELSE LET is_response ==
                 IF line.id.kind = "number" THEN line.id.n = id
                 ELSE IsSome(line.result) \/ IsSome(line.error)
         IN  IF ~is_response THEN "skip"
             ELSE IF IsSome(line.error) THEN "err"
             ELSE "ok"

\* what send_request returns for a line whose verdict is not "skip"
ReadResult(line) ==
    IF IsSome(line.error) THEN RErr(RpcErrorText(line.error))
    ELSE ROk(IF IsSome(line.result) THEN line.result ELSE JNull)

(***************************************************************************)
(* State.                                                                  *)
(***************************************************************************)
\* the task running McpManager::from_config_file, and the host's tasks
\* that run call_tool
Load == "load"
Callers == {"c1", "c2"}
Tasks == {Load} \cup Callers
NoTask == "none"

VARIABLES
    cfgsrc,         \* the configuration file: "missing", "malformed" or "ok"
    cfg,            \* config.mcp_servers: server name -> McpServerConfig (for
                    \* a malformed file: the entries its text names)
    default_pv,     \* config.default_protocol_version
    order,          \* the iteration order of config.mcp_servers
    lpc,            \* from_config_file: "config", "next", "connecting", "done"
    lidx,           \* from_config_file: the position of the loop in `order`
    phase,          \* connect: "none", "initialize", "notify", "list"
    celapsed,       \* seconds since the connect under way was started
    manager,        \* McpManager.servers
    connres,        \* what the connect of each server came to
    sstate,         \* the session of a server: "none", "stdio", "http", "dropped"
    next_id,        \* McpStdioInner.next_id / McpHttpInner.next_id
    lock,           \* the task holding the transport's Mutex, or NoTask
    wire,           \* what the session did on its transport, in order
    tools,          \* McpServer.tools
    negotiated,     \* McpServer.negotiated_protocol
    requested,      \* McpServer.requested_protocol
    pc,             \* a task in send_request / send_notification
    tsess,          \* the session the task works on
    tid,            \* the local `id` of the task's request
    elapsed,        \* seconds since the task's frame was written (or its write began)
    skipped,        \* the kinds of lines the task's read loop has skipped
    answer,         \* the line (or HTTP body) the task's request returned on
    out,            \* what the task's call_tool returned
    ct_result,      \* call_tool alone: the result of tools/call
    ct_out,         \* call_tool alone: the value returned
    h_status,       \* the HTTP branch alone: the status of the response
    h_body,         \* the HTTP branch alone: the body of the response
    h_out,          \* the HTTP branch alone: what send_request returned
    all_out,        \* all_tools alone: the value returned
    doc,            \* the parse of a configuration alone: the JSON document
    parsed          \* the parse of a configuration alone: the value returned

cfgVars == <<cfgsrc, cfg, default_pv, order>>
loadVars == <<lpc, lidx, phase, celapsed, manager, connres>>
sessVars == <<sstate, next_id, lock, wire, tools, negotiated, requested>>
taskVars == <<pc, tsess, tid, elapsed, skipped, answer, out>>
ctVars == <<ct_result, ct_out>>
httpVars == <<h_status, h_body, h_out>>
parseVars == <<doc, parsed>>
aloneVars == <<ctVars, httpVars, all_out, parseVars>>
vars == <<cfgVars, loadVars, sessVars, taskVars, aloneVars>>

\* events of `wire`
Frame(method, id) == [ev |-> "frame", method |-> method, id |-> id]
End(id, how) == [ev |-> how, method |-> "", id |-> id]
\* the frame of initialize, with the protocolVersion of its params
InitializeFrame(id, version) ==
    [ev |-> "frame", method |-> "initialize", id |-> id,
     params |-> JObj([protocolVersion |-> JStr(version),
                      capabilities |-> JObj(NoFields),
                      clientInfo |-> JObj([name |-> JStr("microclaw"),
                                           version |-> JStr("CARGO_PKG_VERSION")])])]
\* initialize() has got a result from its request, with this protocolVersion
\* member (None: with none)
Returned(id, version) ==
    [ev |-> "result", method |-> "initialize", id |-> id, protocolVersion |-> version]

\* the orders a map of the servers can be iterated in
Orders == {o \in [1..Cardinality(Servers) -> Servers] : \A i, j \in DOMAIN o : i # j => o[i] # o[j]}

InitSessions ==
    /\ sstate = [s \in Servers |-> "none"]
    /\ next_id = [s \in Servers |-> 0]
    /\ lock = [s \in Servers |-> NoTask]
    /\ wire = [s \in Servers |-> <<>>]
    /\ tools = [s \in Servers |-> <<>>]
    /\ negotiated = [s \in Servers |-> ""]
    /\ requested = [s \in Servers |-> ""]

InitTasks ==
    /\ pc = [t \in Tasks |-> "idle"]
    /\ tsess = [t \in Tasks |-> "a"]
    /\ tid = [t \in Tasks |-> 0]
    /\ elapsed = [t \in Tasks |-> 0]
    /\ skipped = [t \in Tasks |-> {}]
    /\ answer = [t \in Tasks |-> NoLine]
    /\ out = [t \in Tasks |-> None]

InitLoad ==
    /\ lpc = "config"
    /\ lidx = 1
    /\ phase = "none"
    /\ celapsed = 0
    /\ manager = <<>>
    /\ connres = [s \in Servers |-> "none"]

\* the HTTP branch alone is not running
InitHttp == h_status = 0 /\ h_body = NoLine /\ h_out = None

\* call_tool alone is not running
InitCt == ct_result = RErr("") /\ ct_out = None

\* all_tools alone is not running
InitAll == all_out = None

\* no configuration is parsed alone
InitParse == doc = None /\ parsed = None

\* none of the functions runs alone
InitAlone == InitCt /\ InitHttp /\ InitAll /\ InitParse

\* the configuration: any file, any of the server entries, any order
Init ==
    /\ cfgsrc \in {"missing", "malformed", "ok"}
    /\ IF cfgsrc = "missing"
       THEN cfg = [s \in Servers |-> StdioConfig] /\ order = <<>>
       ELSE cfg \in [Servers -> ConfigSet] /\ order \in Orders
    /\ default_pv = None
    /\ InitLoad /\ InitSessions /\ InitTasks /\ InitAlone

(***************************************************************************)
(* McpManager::from_config_file and McpServer::connect.                    *)
(***************************************************************************)
\* the loop giving up at the first server that fails to connect
LoopAfterConnectAborts(ok) ==
    IF ~ok \/ lidx + 1 > Len(order) THEN "done" ELSE "next"

\* the loop's position once the connect under way has returned (ok: with
\* Ok(Ok(server))): every match arm falls through to the next iteration
LoopAfterConnect(ok) == IF lidx + 1 > Len(order) THEN "done" ELSE "next"

\* a file that is parsed even though it is malformed
ConfigParsedLeniently(src) == src # "missing"

\* read_to_string returns Ok and serde_json::from_str returns Ok
ConfigParsed(src) == src = "ok"

\* read_to_string and serde_json::from_str: an absent or malformed file
\* gives the empty manager, whatever servers a malformed file names
LoadConfig ==
    /\ lpc = "config"
    /\ lpc' = IF ConfigParsed(cfgsrc) /\ order # <<>> THEN "next" ELSE "done"
    /\ UNCHANGED <<lidx, phase, celapsed, manager, connres>>
    /\ UNCHANGED <<cfgVars, sessVars, taskVars, aloneVars>>

\* one iteration of the loop starts: connect() runs up to its first await.
\* `spawned`: whether cmd.spawn() (or the HTTP client's build) works.
ConnectBegin(spawned) ==
    /\ lpc = "next"
    /\ LET s == order[lidx]
           kind == TransportOf(cfg[s])
           protocol == RequestedProtocol(cfg[s], default_pv)
       IN  IF kind = "config_error" \/ ~spawned
           THEN /\ connres' = [connres EXCEPT ![s] = "err"]
                /\ lidx' = lidx + 1
                /\ lpc' = LoopAfterConnect(FALSE)
                /\ UNCHANGED <<phase, celapsed, manager>>
                /\ UNCHANGED <<sessVars, taskVars>>
           ELSE /\ sstate' = [sstate EXCEPT ![s] = kind]
                /\ next_id' = [next_id EXCEPT ![s] = 1]
                /\ requested' = [requested EXCEPT ![s] = protocol]
                /\ negotiated' = [negotiated EXCEPT ![s] = protocol]
                /\ lpc' = "connecting"
                /\ phase' = "initialize"
                /\ celapsed' = 0
                /\ pc' = [pc EXCEPT ![Load] = "lock"]
                /\ tsess' = [tsess EXCEPT ![Load] = s]
                /\ UNCHANGED <<lidx, manager, connres, lock, wire, tools>>
                /\ UNCHANGED <<tid, elapsed, skipped, answer, out>>
    /\ UNCHANGED <<cfgVars, aloneVars>>

\* an initialize that keeps the version it asked for
NegotiatedAsRequested(result, requested_protocol) == requested_protocol

\* result.get("protocolVersion").and_then(as_str).unwrap_or(requested)
Negotiated(result, requested_protocol) ==
    LET v == AsStr(Get(result, "protocolVersion"))
    IN  IF IsSome(v) THEN v.s ELSE requested_protocol

\* one McpToolInfo of list_tools
ToolInfo(server_name, tool) ==
    LET name == AsStr(Get(tool, "name"))
        description == AsStr(Get(tool, "description"))
    IN  [server_name |-> server_name,
         name |-> IF IsSome(name) THEN name.s ELSE "",
         description |-> IF IsSome(description) THEN description.s ELSE "",
         input_schema |-> IF IsSome(Get(tool, "inputSchema"))
                          THEN Get(tool, "inputSchema")
                          ELSE JObj([type |-> JStr("object"),
                                     properties |-> JObj(NoFields)])]

\* a list_tools that takes a result without a tools array for no tools
ListToolsLenient(server_name, result) ==
    LET tools_array == AsArray(Get(result, "tools"))
    IN  IF ~IsSome(tools_array) THEN ROk(<<>>)
        ELSE ROk([i \in DOMAIN tools_array.items |->
                     ToolInfo(server_name, tools_array.items[i])])

\* list_tools on the result of tools/list: Result<Vec<McpToolInfo>, String>
ListTools(server_name, result) ==
    LET tools_value == Get(result, "tools")
        tools_array == AsArray(tools_value)
    IN  IF ~IsSome(tools_value) THEN RErr("No tools in response")
        ELSE IF ~IsSome(tools_array) THEN RErr("tools is not an array")
        ELSE ROk([i \in DOMAIN tools_array.items |->
                     ToolInfo(server_name, tools_array.items[i])])

\* all_tools, the inner loop: the pairs of one server, pushed from tool i on
RECURSIVE PushTools(_, _, _, _)
PushTools(server, catalog, i, acc) ==
    IF i > Len(catalog) THEN acc
    ELSE PushTools(server, catalog, i + 1, Append(acc, <<server, catalog[i]>>))

\* all_tools, the outer loop, from server i on
RECURSIVE PushServers(_, _, _, _)
PushServers(servers, catalogs, i, acc) ==
    IF i > Len(servers) THEN acc
    ELSE PushServers(servers, catalogs, i + 1,
                     PushTools(servers[i], catalogs[servers[i]], 1, acc))

\* all_tools that lists the sessions from the last to the first
all_tools_last_first(servers, catalogs) ==
    PushServers([i \in DOMAIN servers |-> servers[Len(servers) + 1 - i]], catalogs, 1, <<>>)

\* McpManager::all_tools
all_tools(servers, catalogs) == PushServers(servers, catalogs, 1, <<>>)

(***************************************************************************)
(* A send_request or send_notification of task t on session s has         *)
(* returned r (on line l, if on any), the Mutex guard is dropped, and the  *)
(* caller runs on to its next await: call_tool returns; connect goes on    *)
(* with the handshake or returns to the loop of from_config_file.          *)
(***************************************************************************)
\* a handshake that forgets notifications/initialized
NextPhaseSkipsNotification(p) == "list"

\* the handshake's order: initialize() sends the notification after its
\* request, then connect() calls list_tools()
NextPhase(p) == IF p = "initialize" THEN "notify" ELSE "list"

Resume(t, s, r, w, l) ==
    LET isLoad == t = Load
        listed == IF isLoad /\ phase = "list" /\ r.ok THEN ListTools(s, r.val)
                  ELSE RErr("")
        connOk == isLoad /\ phase = "list" /\ r.ok /\ listed.ok
        connEnds == isLoad /\ (~r.ok \/ phase = "list")
    IN  /\ lock' = [lock EXCEPT ![s] = NoTask]
        /\ wire' = [wire EXCEPT ![s] =
                      IF isLoad /\ phase = "initialize" /\ r.ok
                      THEN Append(w, Returned(tid[t], Get(r.val, "protocolVersion")))
                      ELSE w]
        /\ pc' = [pc EXCEPT ![t] =
                    IF ~isLoad THEN "done" ELSE IF connEnds THEN "idle" ELSE "lock"]
        /\ out' = [out EXCEPT ![t] = IF isLoad THEN out[t] ELSE CallToolReturn(r)]
        /\ answer' = [answer EXCEPT ![t] = IF isLoad THEN answer[t] ELSE l]
        /\ phase' = IF ~isLoad THEN phase
                    ELSE IF connEnds THEN "none"
                    ELSE NextPhase(phase)
        /\ negotiated' = IF isLoad /\ phase = "initialize" /\ r.ok
                         THEN [negotiated EXCEPT ![s] = Negotiated(r.val, requested[s])]
                         ELSE negotiated
        /\ tools' = IF connOk THEN [tools EXCEPT ![s] = listed.val] ELSE tools
        /\ manager' = IF connOk THEN Append(manager, s) ELSE manager
        /\ connres' = IF connEnds
                      THEN [connres EXCEPT ![s] = IF connOk THEN "ok" ELSE "err"]
                      ELSE connres
        /\ sstate' = IF connEnds /\ ~connOk THEN [sstate EXCEPT ![s] = "dropped"]
                     ELSE sstate
        /\ lidx' = IF connEnds THEN lidx + 1 ELSE lidx
        /\ lpc' = IF connEnds THEN LoopAfterConnect(connOk) ELSE lpc
        /\ celapsed' = IF connEnds THEN 0 ELSE celapsed
        /\ elapsed' = [elapsed EXCEPT ![t] = 0]
        /\ tid' = IF connEnds THEN [tid EXCEPT ![t] = 0] ELSE tid
        /\ skipped' = IF connEnds THEN [skipped EXCEPT ![t] = {}] ELSE skipped
        /\ UNCHANGED <<next_id, requested, tsess>>

\* the 30-second timeout around connect fires: the connect future is dropped
\* (with it the Mutex guard and the session), and the loop goes on
ConnectTimeout ==
    /\ lpc = "connecting"
    /\ celapsed >= ConnectDeadlineSecs
    /\ LET s == order[lidx]
       IN  /\ lock' = [lock EXCEPT ![s] = NoTask]
           /\ wire' = [wire EXCEPT ![s] =
                         IF pc[Load] = "read" /\ phase # "notify"
                         THEN Append(wire[s], End(tid[Load], "abandoned"))
                         ELSE wire[s]]
           /\ sstate' = [sstate EXCEPT ![s] = "dropped"]
           /\ connres' = [connres EXCEPT ![s] = "timeout"]
    /\ pc' = [pc EXCEPT ![Load] = "idle"]
    /\ phase' = "none"
    /\ lidx' = lidx + 1
    /\ lpc' = LoopAfterConnect(FALSE)
    /\ celapsed' = 0
    /\ elapsed' = [elapsed EXCEPT ![Load] = 0]
    /\ tid' = [tid EXCEPT ![Load] = 0]
    /\ skipped' = [skipped EXCEPT ![Load] = {}]
    /\ UNCHANGED <<manager, next_id, tools, negotiated, requested>>
    /\ UNCHANGED <<tsess, answer, out>>
    /\ UNCHANGED <<cfgVars, aloneVars>>

(***************************************************************************)
(* McpServer::send_request and send_notification.                          *)
(***************************************************************************)
\* a call_tool that lists the tools again before it calls
MethodListsAgain(t) ==
    CASE t = Load /\ phase = "initialize" -> "initialize"
      [] t = Load /\ phase = "notify" -> "notifications/initialized"
      [] OTHER -> "tools/list"

\* the method of the frame task t sends
Method(t) ==
    IF t # Load THEN "tools/call"
    ELSE CASE phase = "initialize" -> "initialize"
           [] phase = "notify" -> "notifications/initialized"
           [] OTHER -> "tools/list"

\* a notification sent the way a request is, with an id of its own
IsNotificationNever(t) == FALSE

\* send_notification (id: None) rather than send_request
IsNotification(t) == t = Load /\ phase = "notify"

\* the seconds after which the wait for a response is given up:
\* the stdio read loop's deadline, the HTTP client's timeout
RequestDeadlineSecs(s) ==
    IF sstate[s] = "stdio" THEN StdioDeadlineSecs ELSE TimeoutSecs(cfg[s])

\* the host calls call_tool on a session it got from the manager
CallTool(t, s) ==
    /\ t \in Callers
    /\ pc[t] \in {"idle", "done", "cancelled"}
    /\ lpc = "done"
    /\ \E i \in DOMAIN manager : manager[i] = s
    /\ next_id[s] + Cardinality({u \in Callers : pc[u] = "lock" /\ tsess[u] = s}) <= MaxId
    /\ pc' = [pc EXCEPT ![t] = "lock"]
    /\ tsess' = [tsess EXCEPT ![t] = s]
    /\ tid' = [tid EXCEPT ![t] = 0]
    /\ elapsed' = [elapsed EXCEPT ![t] = 0]
    /\ skipped' = [skipped EXCEPT ![t] = {}]
    /\ answer' = [answer EXCEPT ![t] = NoLine]
    /\ out' = [out EXCEPT ![t] = None]
    /\ UNCHANGED <<cfgVars, loadVars, sessVars, aloneVars>>

\* a transport without its Mutex
LockFreeAlways(s) == TRUE

\* one Mutex for all the sessions
LockFreeEverywhere(s) == \A x \in Servers : lock[x] = NoTask

\* tokio's Mutex: lock().await returns only while no guard is alive
LockFree(s) == lock[s] = NoTask

\* next_id left as it is
NextIdAfterSame(id) == id

\* inner.next_id += 1
NextIdAfter(id) == id + 1

\* inner.lock().await returns; a request takes next_id and advances it
Acquire(t) ==
    /\ pc[t] = "lock"
    /\ LET s == tsess[t]
       IN  /\ LockFree(s)
           /\ lock' = [lock EXCEPT ![s] = t]
           /\ IF IsNotification(t)
              THEN UNCHANGED <<next_id, tid>>
              ELSE /\ tid' = [tid EXCEPT ![t] = next_id[s]]
                   /\ next_id' = [next_id EXCEPT ![s] = NextIdAfter(next_id[s])]
    /\ pc' = [pc EXCEPT ![t] = "write"]
    /\ UNCHANGED <<sstate, wire, tools, negotiated, requested>>
    /\ UNCHANGED <<tsess, elapsed, skipped, answer, out>>
    /\ UNCHANGED <<cfgVars, loadVars, aloneVars>>

\* write_all and flush complete (stdio), or the POST is on its way (HTTP):
\* the frame is out. A stdio notification returns here; everything else
\* goes on to wait for the server.
WriteOk(t) ==
    /\ pc[t] = "write"
    /\ LET s == tsess[t]
           frame == IF Method(t) = "initialize"
                    THEN InitializeFrame(tid[t], requested[s])
                    ELSE Frame(Method(t), IF IsNotification(t) THEN 0 ELSE tid[t])
       IN  IF IsNotification(t) /\ sstate[s] = "stdio"
           THEN Resume(t, s, ROk(JNull), Append(wire[s], frame), NoLine)
           ELSE /\ wire' = [wire EXCEPT ![s] = Append(wire[s], frame)]
                /\ pc' = [pc EXCEPT ![t] = "read"]
                /\ elapsed' = [elapsed EXCEPT ![t] = 0]
                /\ skipped' = [skipped EXCEPT ![t] = {}]
                /\ UNCHANGED <<sstate, next_id, lock, tools, negotiated, requested>>
                /\ UNCHANGED <<tsess, tid, answer, out>>
                /\ UNCHANGED loadVars
    /\ UNCHANGED <<cfgVars, aloneVars>>

\* write_all or flush fails (stdio), or the POST cannot be sent (HTTP)
WriteFail(t) ==
    /\ pc[t] = "write"
    /\ LET s == tsess[t]
       IN  Resume(t, s,
                  RErr(IF sstate[s] = "stdio" THEN "Write error"
                       ELSE IF IsNotification(t) THEN "HTTP notification failed"
                       ELSE "HTTP request failed"),
                  wire[s], NoLine)
    /\ UNCHANGED <<cfgVars, aloneVars>>

\* the request with this id went out on s and was given up by its caller
\* (cancelled, or timed out) before a response to it was read
Abandoned(s, id) ==
    \E i \in DOMAIN wire[s] : wire[s][i] = End(id, "abandoned")

\* what kind of line the read loop passed over while awaiting `id` on s
LineClass(line, s, id) ==
    IF line.kind = "empty" THEN "empty"
    ELSE IF ~IsJsonRpcResponse(line) THEN "garbage"
    ELSE IF line.id.kind = "number"
    THEN IF Abandoned(s, line.id.n) /\ (IsSome(line.result) \/ IsSome(line.error))
         THEN "stale" ELSE "other"
    ELSE IF line.id = None THEN "notification"
    ELSE "other"

\* the child's stdout has reached its end: read_line has returned Ok(0) on s
Closed(s) == \E i \in DOMAIN wire[s] : wire[s][i].ev = "eof"

\* a read loop that takes its deadline anew after every line it passes over
ReadLineRestartsTimer(t, line) ==
    /\ pc[t] = "read"
    /\ sstate[tsess[t]] = "stdio"
    /\ ~Closed(tsess[t])
    /\ LET s == tsess[t]
       IN  IF ReadVerdict(line, tid[t]) = "skip"
           THEN /\ skipped' = [skipped EXCEPT ![t] =
                                 @ \cup ({LineClass(line, s, tid[t])} \ {"other"})]
                /\ elapsed' = [elapsed EXCEPT ![t] = 0]
                /\ UNCHANGED <<pc, tsess, tid, answer, out>>
                /\ UNCHANGED <<loadVars, sessVars>>
           ELSE Resume(t, s, ReadResult(line), Append(wire[s], End(tid[t], "end")), line)
    /\ UNCHANGED <<cfgVars, aloneVars>>

\* read_line returns a line of the child's stdout (none after its end: the
\* end of a pipe is final)
ReadLine(t, line) ==
    /\ pc[t] = "read"
    /\ sstate[tsess[t]] = "stdio"
    /\ ~Closed(tsess[t])
    /\ LET s == tsess[t]
       IN  IF ReadVerdict(line, tid[t]) = "skip"
           THEN /\ skipped' = [skipped EXCEPT ![t] =
                                 @ \cup ({LineClass(line, s, tid[t])} \ {"other"})]
                /\ UNCHANGED <<pc, tsess, tid, elapsed, answer, out>>
                /\ UNCHANGED <<loadVars, sessVars>>
           ELSE Resume(t, s, ReadResult(line), Append(wire[s], End(tid[t], "end")), line)
    /\ UNCHANGED <<cfgVars, aloneVars>>

\* read_line returns Ok(0): the child closed its stdout
ReadEof(t) ==
    /\ pc[t] = "read"
    /\ sstate[tsess[t]] = "stdio"
    /\ Resume(t, tsess[t], RErr("MCP server closed connection"),
              Append(wire[tsess[t]], End(tid[t], "eof")), NoLine)
    /\ UNCHANGED <<cfgVars, aloneVars>>

\* read_line returns Err: the pipe fails, or the bytes read are not UTF-8
\* (a line is text here: what read_line has decoded)
ReadError(t) ==
    /\ pc[t] = "read"
    /\ sstate[tsess[t]] = "stdio"
    /\ Resume(t, tsess[t], RErr("Read error"),
              Append(wire[tsess[t]], End(tid[t], "end")), NoLine)
    /\ UNCHANGED <<cfgVars, aloneVars>>

\* timeout_at(deadline, ..) returns Err: the deadline has passed
Timeout(t) ==
    /\ pc[t] = "read"
    /\ sstate[tsess[t]] = "stdio"
    /\ elapsed[t] >= RequestDeadlineSecs(tsess[t])
    /\ Resume(t, tsess[t], RErr("MCP server response timeout (120s)"),
              Append(wire[tsess[t]], End(tid[t], "abandoned")), NoLine)
    /\ UNCHANGED <<cfgVars, aloneVars>>

\* the statuses an HTTP server answers with
HttpStatuses == {200, 500}

\* StatusCode::is_success
IsSuccess(status) == status >= 200 /\ status < 300

\* StatusCode's Display
StatusText(status) ==
    CASE status = 200 -> "200 OK"
      [] status = 204 -> "204 No Content"
      [] status = 404 -> "404 Not Found"
      [] status = 500 -> "500 Internal Server Error"
      [] OTHER -> ToString(status)

\* the response takes send_request to its return of the status error
IsStatusError(status, body) ==
    body.kind \notin {"empty", "garbage"} /\ ~IsSuccess(status)

\* send_request on HTTP from `let status` on: the Result for a response
HttpResult(status, body) ==
    IF body.kind \in {"empty", "garbage"}
    THEN RErr("Failed to parse HTTP MCP response")
    ELSE IF ~IsSuccess(status)
    THEN RErr("HTTP MCP request failed with " \o StatusText(status) \o ": "
                  \o Compact(BodyValue(body)))
    ELSE IF IsJsonRpcResponse(body)
    THEN ReadResult(body)
    ELSE IF IsSome(Get(BodyValue(body), "result"))
    THEN ROk(Get(BodyValue(body), "result"))
    ELSE ROk(BodyValue(body))

\* send_notification on HTTP: Ok iff the status is a success
HttpNotificationResult(status) ==
    IF IsSuccess(status) THEN ROk(JNull)
    ELSE RErr("HTTP notification failed with status " \o StatusText(status))

\* the response to the POST arrives
HttpResponse(t, status, body) ==
    /\ pc[t] = "read"
    /\ sstate[tsess[t]] = "http"
    /\ LET s == tsess[t]
       IN  IF IsNotification(t)
           THEN Resume(t, s, HttpNotificationResult(status), wire[s], NoLine)
           ELSE Resume(t, s, HttpResult(status, body),
                       Append(wire[s], End(tid[t], IF IsStatusError(status, body)
                                                   THEN "status" ELSE "end")),
                       body)
    /\ UNCHANGED <<cfgVars, aloneVars>>

\* req.send() fails: the connection broke (timedOut = FALSE), or the
\* client's timeout of timeout_secs has passed
HttpFail(t, timedOut) ==
    /\ pc[t] = "read"
    /\ sstate[tsess[t]] = "http"
    /\ timedOut => elapsed[t] >= RequestDeadlineSecs(tsess[t])
    /\ LET s == tsess[t]
       IN  IF IsNotification(t)
           THEN Resume(t, s, RErr("HTTP notification failed"), wire[s], NoLine)
           ELSE Resume(t, s, RErr("HTTP request failed"),
                       Append(wire[s], End(tid[t], "end")), NoLine)
    /\ UNCHANGED <<cfgVars, aloneVars>>

\* a cancellation that leaks the Mutex guard
CancelKeepsGuard(t) ==
    /\ t \in Callers
    /\ pc[t] \in {"lock", "write", "read"}
    /\ wire' = [wire EXCEPT ![tsess[t]] =
                  IF pc[t] = "read"
                  THEN Append(wire[tsess[t]], End(tid[t], "abandoned"))
                  ELSE wire[tsess[t]]]
    /\ pc' = [pc EXCEPT ![t] = "cancelled"]
    /\ tid' = [tid EXCEPT ![t] = 0]
    /\ elapsed' = [elapsed EXCEPT ![t] = 0]
    /\ skipped' = [skipped EXCEPT ![t] = {}]
    /\ UNCHANGED <<sstate, next_id, lock, tools, negotiated, requested>>
    /\ UNCHANGED <<tsess, answer, out>>
    /\ UNCHANGED <<cfgVars, loadVars, aloneVars>>

\* the host drops the future of a call_tool at one of its awaits: the Mutex
\* guard, if held, is dropped with it
Cancel(t) ==
    /\ t \in Callers
    /\ pc[t] \in {"lock", "write", "read"}
    /\ LET s == tsess[t]
       IN  /\ lock' = [lock EXCEPT ![s] = IF lock[s] = t THEN NoTask ELSE lock[s]]
           /\ wire' = [wire EXCEPT ![s] =
                         IF pc[t] = "read"
                         THEN Append(wire[s], End(tid[t], "abandoned")) ELSE wire[s]]
    /\ pc' = [pc EXCEPT ![t] = "cancelled"]
    /\ tid' = [tid EXCEPT ![t] = 0]
    /\ elapsed' = [elapsed EXCEPT ![t] = 0]
    /\ skipped' = [skipped EXCEPT ![t] = {}]
    /\ UNCHANGED <<sstate, next_id, tools, negotiated, requested>>
    /\ UNCHANGED <<tsess, answer, out>>
    /\ UNCHANGED <<cfgVars, loadVars, aloneVars>>

\* the step of the clock
TickSecs == CfgTimeoutSecs

\* time passes for every running timer; no timer runs past its deadline
\* without its timeout having fired
Tick ==
    /\ lpc = "connecting" \/ \E t \in Tasks : pc[t] = "read"
    /\ lpc = "connecting" => celapsed < ConnectDeadlineSecs
    /\ \A t \in Tasks : pc[t] = "read" => elapsed[t] < RequestDeadlineSecs(tsess[t])
    /\ celapsed' = IF lpc = "connecting" THEN celapsed + TickSecs ELSE celapsed
    /\ elapsed' = [t \in Tasks |->
                     IF pc[t] = "read" THEN elapsed[t] + TickSecs ELSE elapsed[t]]
    /\ UNCHANGED <<lpc, lidx, phase, manager, connres>>
    /\ UNCHANGED <<pc, tsess, tid, skipped, answer, out>>
    /\ UNCHANGED <<cfgVars, sessVars, aloneVars>>

\* write_all or flush stays pending: the child does not read its stdin and
\* the pipe is full. No timer runs yet: the deadline is taken after the flush.
\* elapsed counts the seconds the write has been pending.
WriteStall(t) ==
    /\ t \in Callers
    /\ pc[t] = "write"
    /\ sstate[tsess[t]] = "stdio"
    /\ elapsed[t] < MaxStallSecs
    /\ elapsed' = [elapsed EXCEPT ![t] = elapsed[t] + TickSecs]
    /\ UNCHANGED <<pc, tsess, tid, skipped, answer, out>>
    /\ UNCHANGED <<cfgVars, loadVars, sessVars, aloneVars>>

Next ==
    \/ LoadConfig
    \/ \E spawned \in BOOLEAN : ConnectBegin(spawned)
    \/ ConnectTimeout
    \/ \E t \in Callers, s \in Servers : CallTool(t, s)
    \/ \E t \in Tasks : Acquire(t)
    \/ \E t \in Tasks : WriteOk(t)
    \/ \E t \in Callers : WriteStall(t)
    \/ \E t \in Tasks : WriteFail(t)
    \/ \E t \in Tasks, line \in Lines : ReadLine(t, line)
    \/ \E t \in Tasks : ReadEof(t)
    \/ \E t \in Tasks : ReadError(t)
    \/ \E t \in Tasks : Timeout(t)
    \/ \E t \in Tasks, status \in HttpStatuses, body \in Lines : HttpResponse(t, status, body)
    \/ \E t \in Tasks, timedOut \in BOOLEAN : HttpFail(t, timedOut)
    \/ \E t \in Callers : Cancel(t)
    \/ Tick

Spec == Init /\ [][Next]_vars

(***************************************************************************)
(* SpecLoad: from_config_file alone, with every kind of server entry and   *)
(* every answer a server can give to the handshake. No call_tool yet.      *)
(***************************************************************************)
InitLoadOnly ==
    /\ cfgsrc \in {"missing", "malformed", "ok"}
    /\ IF cfgsrc = "missing"
       THEN cfg = [s \in Servers |-> StdioConfig] /\ order = <<>>
       ELSE /\ cfg \in [Servers -> {StdioTimeoutConfig, HttpConfig} \cup BadConfigs]
            /\ order \in Orders
    /\ default_pv = None
    /\ InitLoad /\ InitSessions /\ InitTasks /\ InitAlone

\* the bodies an HTTP server answers the handshake with (HTTP never looks
\* at the id of a body)
HandshakeBodies == OtherLines \cup {l \in JsonLines : l.id = None}

NextLoad ==
    \/ LoadConfig
    \/ \E spawned \in BOOLEAN : ConnectBegin(spawned)
    \/ ConnectTimeout
    \/ Acquire(Load)
    \/ WriteOk(Load)
    \/ WriteFail(Load)
    \/ \E line \in Lines : ReadLine(Load, line)
    \/ ReadEof(Load)
    \/ ReadError(Load)
    \/ \E status \in HttpStatuses, body \in HandshakeBodies :
           HttpResponse(Load, status, body)
    \/ \E timedOut \in BOOLEAN : HttpFail(Load, timedOut)
    \/ Tick

SpecLoad == InitLoadOnly /\ [][NextLoad]_vars

(***************************************************************************)
(* The specifications of call_tool start from a manager whose servers      *)
(* answered the handshake as they should.                                  *)
(***************************************************************************)
\* the responses of a server that follows the protocol, to any request
GoodPayload == JObj([tools |-> JArr(<<JObj([name |-> JStr("read")]), JObj(NoFields)>>)])
GoodLines == {l \in JsonLines : l.id = None /\ l.result = GoodPayload /\ l.error = None}

\* the bodies an HTTP server answers a tools/call with
HttpBodies ==
    GoodLines \cup {OtherLine("garbage")}
        \cup {l \in JsonLines : l.id = None /\ l.result = None /\ l.error = ErrObj}

GoodHandshake ==
    \/ LoadConfig
    \/ ConnectBegin(TRUE)
    \/ Acquire(Load)
    \/ WriteOk(Load)
    \/ \E line \in GoodLines : ReadLine(Load, line)
    \/ \E body \in GoodLines : HttpResponse(Load, 200, body)

(***************************************************************************)
(* SpecCalls: one task of the host calls call_tool, again and again, on    *)
(* the stdio session; the server may send any line, may be late or         *)
(* silent, the caller may be cancelled.                                    *)
(***************************************************************************)
InitCalls ==
    /\ cfgsrc = "ok"
    /\ cfg \in {c \in [Servers -> {StdioConfig, StdioTimeoutConfig, HttpTimeoutConfig}] :
                   c["b"] = HttpTimeoutConfig /\ c["a"] # HttpTimeoutConfig}
    /\ order = <<"a", "b">>
    /\ default_pv = None
    /\ InitLoad /\ InitSessions /\ InitTasks /\ InitAlone

NextCalls ==
    \/ GoodHandshake
    \/ CallTool("c1", "a")
    \/ Acquire("c1")
    \/ WriteOk("c1")
    \/ WriteFail("c1")
    \/ \E line \in Lines : ReadLine("c1", line)
    \/ ReadEof("c1")
    \/ ReadError("c1")
    \/ Timeout("c1")
    \/ Cancel("c1")
    \/ Tick /\ lpc = "done"

SpecCalls == InitCalls /\ [][NextCalls]_vars

(***************************************************************************)
(* SpecPair: two tasks of the host call call_tool at the same time, on     *)
(* the same session or on two. The child keeps its stdout open (its end    *)
(* is SpecRelease's and SpecFailures') and answers the request awaited     *)
(* (late responses are SpecCalls').                                        *)
(***************************************************************************)
\* the lines a stdio server answers with here: a response to any request
PairLines ==
    {l \in JsonLines : l.id.kind = "number" /\ l.result = GoodPayload /\ l.error = None}

NextPair ==
    \/ GoodHandshake
    \/ \E t \in Callers, s \in Servers : CallTool(t, s)
    \/ \E t \in Callers : Acquire(t)
    \/ \E t \in Callers : WriteOk(t)
    \/ \E t \in Callers : WriteFail(t)
    \/ \E t \in Callers, line \in PairLines : line.id = JNum(tid[t]) /\ ReadLine(t, line)
    \/ \E t \in Callers : Timeout(t)
    \/ \E t \in Callers, body \in GoodLines : HttpResponse(t, 200, body)
    \/ \E t \in Callers : HttpFail(t, TRUE)
    \/ \E t \in Callers : Cancel(t)
    \/ Tick /\ lpc = "done"

SpecPair == InitCalls /\ [][NextPair]_vars

(***************************************************************************)
(* SpecCallTool: call_tool alone, on everything send_request can return.   *)
(***************************************************************************)
\* the elements of a content array
Items ==
    { JObj([text |-> JStr("")]), JObj([text |-> JStr("a")]), JObj([text |-> JStr("b")]),
      JObj([type |-> JStr("image")]), JObj([text |-> JNum(1)]) }

\* the content member: an array, or something else
Contents ==
    {JStr("x")} \cup {JArr(a) : a \in UNION {[1..n -> Items] : n \in 0..MaxItems}}

\* the isError member
IsErrors == {JBool(TRUE), JBool(FALSE), JStr("true")}

\* a result with these members (None: the member is absent)
CallResult(isError, content) ==
    LET keys == {k \in {"isError", "content"} :
                    IsSome(IF k = "isError" THEN isError ELSE content)}
    IN  JObj([k \in keys |-> IF k = "isError" THEN isError ELSE content])

CallResults ==
    {JNull} \cup {CallResult(e, c) : e \in {None} \cup IsErrors, c \in {None} \cup Contents}

InitCallTool ==
    /\ ct_result \in {ROk(v) : v \in CallResults}
                        \cup {RErr("MCP error (-32000): boom"), RErr("Write error")}
    /\ ct_out = None
    /\ InitHttp /\ InitAll /\ InitParse
    /\ cfgsrc = "missing"
    /\ cfg = [s \in Servers |-> StdioConfig] /\ order = <<>>
    /\ default_pv = None
    /\ InitLoad /\ InitSessions /\ InitTasks

\* call_tool, from the return of send_request to its own return
CallToolStep ==
    /\ ct_out = None
    /\ ct_out' = CallToolReturn(ct_result)
    /\ UNCHANGED <<ct_result, httpVars, all_out, parseVars>>
    /\ UNCHANGED <<cfgVars, loadVars, sessVars, taskVars>>

SpecCallTool == InitCallTool /\ [][CallToolStep]_vars

(***************************************************************************)
(* SpecHttp: the HTTP branch of send_request alone, from the response on,  *)
(* on every status and body.                                               *)
(***************************************************************************)
\* the statuses of the responses
ResponseStatuses == {200, 204, 404, 500}

InitHttpOnly ==
    /\ h_status \in ResponseStatuses
    /\ h_body \in Lines
    /\ h_out = None
    /\ InitCt /\ InitAll /\ InitParse
    /\ cfgsrc = "missing"
    /\ cfg = [s \in Servers |-> StdioConfig] /\ order = <<>>
    /\ default_pv = None
    /\ InitLoad /\ InitSessions /\ InitTasks

HttpStep ==
    /\ h_out = None
    /\ h_out' = HttpResult(h_status, h_body)
    /\ UNCHANGED <<h_status, h_body, ctVars, all_out, parseVars>>
    /\ UNCHANGED <<cfgVars, loadVars, sessVars, taskVars>>

SpecHttp == InitHttpOnly /\ [][HttpStep]_vars

(***************************************************************************)
(* SpecAllTools: all_tools alone, on every manager load can return for     *)
(* servers that list up to MaxItems tools.                                 *)
(***************************************************************************)
\* the tools a server lists
ToolNames == {"read", "write"}

\* the catalogs list_tools can return for server s
Catalogs(s) ==
    UNION {[1..n -> {ToolInfo(s, JObj([name |-> JStr(nm)])) : nm \in ToolNames}] :
              n \in 0..MaxItems}

\* the managers load can return: the servers retained, in the loop's order
Managers ==
    {<<>>} \cup {<<s>> : s \in Servers} \cup Orders

InitAllTools ==
    /\ cfgsrc = "ok"
    /\ cfg = [s \in Servers |-> StdioConfig]
    /\ order \in Orders
    /\ default_pv = None
    /\ lpc = "done" /\ lidx = Len(order) + 1 /\ phase = "none" /\ celapsed = 0
    /\ manager \in Managers
    /\ \A i, j \in DOMAIN manager :
          i < j => \E k, l \in DOMAIN order :
                       k < l /\ order[k] = manager[i] /\ order[l] = manager[j]
    /\ LET kept == {manager[i] : i \in DOMAIN manager}
       IN  /\ connres = [s \in Servers |-> IF s \in kept THEN "ok" ELSE "err"]
           /\ sstate = [s \in Servers |-> IF s \in kept THEN "stdio" ELSE "none"]
           /\ next_id = [s \in Servers |-> IF s \in kept THEN 3 ELSE 0]
           /\ tools \in [Servers -> UNION {Catalogs(s) : s \in Servers}]
           /\ \A s \in Servers :
                 IF s \in kept THEN tools[s] \in Catalogs(s) ELSE tools[s] = <<>>
           /\ negotiated = [s \in Servers |->
                               IF s \in kept THEN DEFAULT_PROTOCOL_VERSION ELSE ""]
           /\ requested = negotiated
    /\ lock = [s \in Servers |-> NoTask]
    /\ wire = [s \in Servers |-> <<>>]
    /\ InitTasks /\ InitCt /\ InitHttp /\ InitParse
    /\ all_out = None

AllToolsStep ==
    /\ all_out = None
    /\ all_out' = Some(all_tools(manager, tools))
    /\ UNCHANGED <<ctVars, httpVars, parseVars>>
    /\ UNCHANGED <<cfgVars, loadVars, sessVars, taskVars>>

SpecAllTools == InitAllTools /\ [][AllToolsStep]_vars

(***************************************************************************)
(* SpecParse: the parse of a configuration alone, on documents that give   *)
(* or leave out every key, by its name or by its alias.                    *)
(***************************************************************************)
\* the keys a server entry is written with
EntryKeys ==
    {"transport", "protocol_version", "protocolVersion", "request_timeout_secs",
     "command", "args", "env", "endpoint", "url", "headers"}

\* the values a key is given: the first is one the field accepts
KeyValues(k) ==
    CASE k = "transport" -> <<JStr("streamable_http"), JNull>>
      [] k \in {"protocol_version", "protocolVersion"} -> <<JStr("2024-11-05"), JNull>>
      [] k = "request_timeout_secs" -> <<JNum(CfgTimeoutSecs), JStr("60")>>
      [] k = "command" -> <<JStr("npx")>>
      [] k = "args" -> <<JArr(<<JStr("-y"), JStr(".")>>)>>
      [] k \in {"env", "headers"} -> <<JObj([name |-> JStr("x")])>>
      [] OTHER -> <<JStr("http://h/mcp")>>

\* the object that gives key k its c[k]-th value, and no key k with c[k] = 0
ObjectOf(c) ==
    JObj([k \in {x \in DOMAIN c : c[x] > 0} |-> KeyValues(k)[c[k]]])

\* the server entries
EntryDocs ==
    {ObjectOf(c) : c \in {x \in [EntryKeys -> 0..2] :
                             \A k \in EntryKeys : x[k] <= Len(KeyValues(k))}}

\* the entries the documents with a default version are written with
AliasEntries ==
    {e \in EntryDocs : DOMAIN e.fields \subseteq {"protocolVersion", "url", "command"}}

\* what a document says of the default version: nothing, or a version by
\* either name, or null, or both names
DefaultVersionFields ==
    { NoFields,
      [default_protocol_version |-> JStr("2025-03-26")],
      [defaultProtocolVersion |-> JStr("2025-03-26")],
      [default_protocol_version |-> JNull],
      [default_protocol_version |-> JStr("2025-03-26"),
       defaultProtocolVersion |-> JStr("2025-03-26")] }

\* the documents: with one server, or without the key mcpServers
Documents ==
    {JObj(d @@ [mcpServers |-> JObj([a |-> e])]) :
         d \in {NoFields}, e \in EntryDocs}
    \cup {JObj(d @@ [mcpServers |-> JObj([a |-> e])]) :
             d \in DefaultVersionFields, e \in AliasEntries}
    \cup {JObj(d) : d \in DefaultVersionFields}
    \cup {JObj([mcp_servers |-> JObj(NoFields)]), JArr(<<>>)}

InitParseOnly ==
    /\ doc \in Documents
    /\ parsed = None
    /\ InitCt /\ InitHttp /\ InitAll
    /\ cfgsrc = "missing"
    /\ cfg = [s \in Servers |-> StdioConfig] /\ order = <<>>
    /\ default_pv = None
    /\ InitLoad /\ InitSessions /\ InitTasks

ParseStep ==
    /\ parsed = None
    /\ parsed' = ParseConfig(doc)
    /\ UNCHANGED <<doc, ctVars, httpVars, all_out>>
    /\ UNCHANGED <<cfgVars, loadVars, sessVars, taskVars>>

SpecParse == InitParseOnly /\ [][ParseStep]_vars

(***************************************************************************)
(* SpecVersions: load with servers that set a protocol version or none,    *)
(* with and without the manager's default, and servers that answer with a  *)
(* version of their own, with none, or with one that is no string.         *)
(***************************************************************************)
\* a default_protocol_version a configuration sets
ManagerVersion == "2025-03-26"

\* an HTTP server entry with a version of its own
HttpVersionConfig == McpServerConfig("http", "", "http://h/mcp", None, JStr("2024-11-05"))

\* what the servers answer a request of the handshake with
VersionResults ==
    { JObj(NoFields),
      JObj([protocolVersion |-> JStr("2024-01-01")]),
      JObj([protocolVersion |-> JNum(1)]),
      GoodPayload }
VersionLines ==
    {[kind |-> "json", id |-> None, result |-> r, error |-> None] : r \in VersionResults}

InitVersions ==
    /\ cfgsrc = "ok"
    /\ cfg \in [Servers -> {StdioConfig, StdioTimeoutConfig, HttpConfig, HttpVersionConfig}]
    /\ order \in Orders
    /\ default_pv \in {None, JStr(ManagerVersion)}
    /\ InitLoad /\ InitSessions /\ InitTasks /\ InitAlone

NextVersions ==
    \/ LoadConfig
    \/ ConnectBegin(TRUE)
    \/ Acquire(Load)
    \/ WriteOk(Load)
    \/ \E line \in VersionLines : ReadLine(Load, line)
    \/ \E body \in VersionLines : HttpResponse(Load, 200, body)

SpecVersions == InitVersions /\ [][NextVersions]_vars

(***************************************************************************)
(* SpecFailures: one task of the host calls call_tool, again and again, on *)
(* the stdio session or on the HTTP session; the child may close its       *)
(* stdout, the HTTP server may answer with an error status.                *)
(***************************************************************************)
NextFailures ==
    \/ GoodHandshake
    \/ \E s \in Servers : CallTool("c1", s)
    \/ Acquire("c1")
    \/ WriteOk("c1")
    \/ WriteFail("c1")
    \/ \E line \in PairLines : ReadLine("c1", line)
    \/ ReadEof("c1")
    \/ \E status \in HttpStatuses, body \in GoodLines : HttpResponse("c1", status, body)

SpecFailures == InitCalls /\ [][NextFailures]_vars

(***************************************************************************)
(* SpecRelease: two tasks of the host call call_tool on the stdio session; *)
(* a request ends in every way it can.                                     *)
(***************************************************************************)
\* the lines the server answers with here: a result or an RPC error, for an id
ReleaseLines ==
    {l \in JsonLines : /\ l.id.kind = "number"
                       /\ \/ l.result = GoodPayload /\ l.error = None
                          \/ l.result = None /\ l.error = ErrObj}

NextRelease ==
    \/ GoodHandshake
    \/ \E t \in Callers : CallTool(t, "a")
    \/ \E t \in Callers : Acquire(t)
    \/ \E t \in Callers : WriteOk(t)
    \/ \E t \in Callers : WriteFail(t)
    \/ \E t \in Callers, line \in ReleaseLines : ReadLine(t, line)
    \/ \E t \in Callers : ReadEof(t)
    \/ \E t \in Callers : ReadError(t)
    \/ \E t \in Callers : Timeout(t)
    \/ \E t \in Callers : Cancel(t)
    \/ Tick /\ lpc = "done"

SpecRelease == InitCalls /\ [][NextRelease]_vars

(***************************************************************************)
(* SpecStall: one task of the host calls call_tool on the stdio session of *)
(* a server that may stop reading its stdin, may be late or silent.        *)
(***************************************************************************)
NextStall ==
    \/ GoodHandshake
    \/ CallTool("c1", "a")
    \/ Acquire("c1")
    \/ WriteStall("c1")
    \/ WriteOk("c1")
    \/ WriteFail("c1")
    \/ \E line \in PairLines \cup OtherLines : ReadLine("c1", line)
    \/ Timeout("c1")
    \/ Tick /\ lpc = "done"

SpecStall == InitCalls /\ [][NextStall]_vars

(***************************************************************************)
(* What the claims speak about.                                            *)
(***************************************************************************)
\* the frames a session has emitted, in order
FramesOf(s) == SelectSeq(wire[s], LAMBDA e : e.ev = "frame")

\* the ids of the request frames a session has emitted, in order (a
\* notification has no id: 0 here)
RequestIds(s) ==
    LET f == SelectSeq(wire[s], LAMBDA e : e.ev = "frame" /\ e.id # 0)
    IN  [i \in DOMAIN f |-> f[i].id]

IsRequestFrame(e) == e.ev = "frame" /\ e.id # 0
IsEndOf(e, id) == e.ev \in {"end", "eof", "status", "abandoned"} /\ e.id = id

\* the three frames of the handshake
HandshakeMethods == <<"initialize", "notifications/initialized", "tools/list">>

\* the errors of a stdio send_request that come from the transport, not from a line
TransportErrors ==
    { Err("Write error"), Err("Read error"), Err("MCP server closed connection"),
      Err("MCP server response timeout (120s)") }

\* the lines C6 calls noise: empty, malformed, or a notification
IsNoise(l) ==
    \/ l.kind # "json"
    \/ l.error = BadErr
    \/ l.id = None /\ l.result = None /\ l.error = None

\* the texts of a content array: the text members that are strings, in order
RECURSIVE TextsOf(_)
TextsOf(items) ==
    IF items = <<>> THEN <<>>
    ELSE LET text == AsStr(Get(Head(items), "text"))
         IN  (IF IsSome(text) THEN <<text.s>> ELSE <<>>) \o TextsOf(Tail(items))

\* texts joined with one "\n" between every two consecutive ones
RECURSIVE Join(_)
Join(texts) ==
    IF texts = <<>> THEN ""
    ELSE IF Len(texts) = 1 THEN texts[1]
    ELSE texts[1] \o "\n" \o Join(Tail(texts))

(***************************************************************************)
(* The claims.                                                             *)
(***************************************************************************)
\* C1: on every session, stdio or HTTP, the ids of the request frames emitted
\* start at 1 and are strictly increasing (so none is used twice), whatever
\* became of the requests: written or not, answered, failed, timed out,
\* cancelled.
C1_IdsStrictlyIncreasing ==
    \A s \in Servers :
        LET ids == RequestIds(s)
        IN  /\ ids # <<>> => ids[1] = 1
            /\ \A i \in 1..(Len(ids) - 1) : ids[i] < ids[i + 1]

\* C1 witness: the stdio session has sent 1, 2, 3, 4 with request 3 timed out
\* or cancelled, and the HTTP session 1, 2, 4: the request that took id 3
\* failed before its frame was out.
C1_Witness ==
    /\ sstate["a"] = "stdio" /\ RequestIds("a") = <<1, 2, 3, 4>> /\ Abandoned("a", 3)
    /\ sstate["b"] = "http" /\ RequestIds("b") = <<1, 2, 4>>

\* C2: on one session at most one request is in flight: at most one task is
\* between taking the lock and the end of its write-read cycle, and between
\* two request frames on the wire lies the end (response read, failure,
\* cancellation) of the first one's cycle, so the cycles end in the order
\* the requests were issued.
C2_OneInFlight ==
    \A s \in Servers :
        /\ Cardinality({t \in Tasks : tsess[t] = s /\ pc[t] \in {"write", "read"}}) <= 1
        /\ \A i, j \in DOMAIN wire[s] :
              (i < j /\ IsRequestFrame(wire[s][i]) /\ IsRequestFrame(wire[s][j]))
                  => \E k \in (i + 1)..(j - 1) : IsEndOf(wire[s][k], wire[s][i].id)

\* C2 witness: two call_tool on the same session, the first waiting for its
\* response, the second waiting for the lock, its frame not written.
C2_Witness ==
    /\ pc["c1"] = "read" /\ pc["c2"] = "lock" /\ tsess["c1"] = tsess["c2"]
    /\ sstate[tsess["c1"]] = "stdio"
    /\ RequestIds(tsess["c1"]) = <<1, 2, 3>>

\* C3: the first three frames a session emits are the request initialize, the
\* notification notifications/initialized (no id) and the request tools/list,
\* in this order, with nothing before or between them.
C3_HandshakeFrames ==
    \A s \in Servers :
        LET f == FramesOf(s)
        IN  \A i \in DOMAIN f :
                i <= 3 => /\ f[i].method = HandshakeMethods[i]
                          /\ (f[i].id = 0) <=> (i = 2)

\* C3 witness: a session has emitted all three frames, its tools/list answered.
C3_Witness ==
    \E s \in Servers :
        /\ Len(FramesOf(s)) = 3
        /\ connres[s] = "ok"

\* C4: when load returns, every configured server has been tried, and the
\* manager holds exactly the servers whose connect succeeded (the sessions
\* still alive), in the order of the loop: a server that failed, or ran into
\* the 30-second deadline, keeps no other server out.
C4_FailuresContained ==
    (lpc = "done" /\ cfgsrc = "ok") =>
        /\ \A i \in DOMAIN order : connres[order[i]] # "none"
        /\ manager = SelectSeq(order, LAMBDA s : connres[s] = "ok")
        /\ \A s \in Servers : connres[s] = "ok" <=> sstate[s] \in {"stdio", "http"}

\* C4 witness: the first server of the loop ran into the deadline, the second
\* is the one server of the manager.
C4_Witness ==
    /\ lpc = "done" /\ cfgsrc = "ok" /\ Len(order) = 2
    /\ connres[order[1]] = "timeout"
    /\ manager = <<order[2]>>

\* C5: load runs the connects of all servers concurrently: while the connect
\* of one server waits for an answer of its handshake and another server has
\* not been tried yet, the connect of that other server can start.
C5_ConnectsConcurrent ==
    (lpc = "connecting" /\ pc[Load] = "read" /\ lidx < Len(order))
        => ENABLED (\E spawned \in BOOLEAN : ConnectBegin(spawned))

C7_StaleSkipped ==
    \A t \in Callers :
        (pc[t] = "done" /\ sstate[tsess[t]] = "stdio" /\ answer[t].id.kind = "number")
            => /\ answer[t].id.n = tid[t]
               /\ ~Abandoned(tsess[t], answer[t].id.n)

\* C7 witness: request 3 was given up after its frame was written; request 4
\* has skipped the late response to 3 and returned on the response to 4.
C7_Witness ==
    \E t \in Callers :
        /\ pc[t] = "done" /\ sstate[tsess[t]] = "stdio" /\ out[t].ok
        /\ tid[t] = 4 /\ Abandoned(tsess[t], 3)
        /\ "stale" \in skipped[t]
        /\ answer[t].id = JNum(4)

\* C8: a stdio request waits for its response no longer than the configured
\* deadline: request_timeout_secs when the configuration sets it, 120
\* seconds otherwise.
C8_ConfiguredDeadline ==
    \A t \in Callers :
        (pc[t] = "read" /\ sstate[tsess[t]] = "stdio")
            => elapsed[t] <= TimeoutSecs(cfg[tsess[t]])

\* C9: for a result whose content is an array, call_tool returns the texts of
\* the elements that have one, in order, with one "\n" between every two
\* consecutive texts, the empty text included.
C9_TextsJoined ==
    (ct_out # None /\ ct_result.ok /\ IsSome(AsArray(Get(ct_result.val, "content"))))
        => ct_out.text = Join(TextsOf(Get(ct_result.val, "content").items))

\* C10: call_tool returns an error exactly when the request failed or the
\* result's isError is the boolean true; the error of a failed request is the
\* request's, and with isError true the error carries the text a success
\* would have carried: the concatenation of the content array, or the
\* pretty-printed result when content is no array.
C10_ErrorIffIsError ==
    ct_out # None =>
        IF ct_result.ok
        THEN LET result == ct_result.val
                 array == AsArray(Get(result, "content"))
             IN  /\ ~ct_out.ok <=> Get(result, "isError") = JBool(TRUE)
                 /\ ct_out.text = IF IsSome(array) THEN ConcatText(array.items, 1, "")
                                  ELSE to_string_pretty(result)
        ELSE ct_out = Err(ct_result.text)

\* C10 witness: call_tool has returned an error for a result with isError true
\* and no content array: the error is the pretty-printed result.
C10_Witness ==
    /\ ct_result = ROk(CallResult(JBool(TRUE), JStr("x")))
    /\ ct_out = Err("{\n  \"content\": \"x\",\n  \"isError\": true\n}")

\* the text of a body as the server sent it
RawText(body) ==
    CASE body.kind = "garbage" -> "<html>Bad Gateway</html>"
      [] body.kind = "empty" -> ""
      [] OTHER -> Compact(BodyValue(body))

\* C11: for every HTTP response with a status that is no 2xx, whatever its
\* body, JSON or not, send_request fails with the error that carries the
\* status and the body.
C11_StatusErrorCarriesBody ==
    (h_out # None /\ ~IsSuccess(h_status))
        => h_out = RErr("HTTP MCP request failed with " \o StatusText(h_status)
                            \o ": " \o RawText(h_body))

\* C12: tool calls on different sessions proceed in parallel: while a
\* call_tool is in flight on one session (it holds the session, its frame
\* being written or its response awaited), a call_tool on another session
\* can take that session and write its frame.
C12_SessionsInParallel ==
    \A t, u \in Callers :
        (t # u /\ pc[t] \in {"write", "read"} /\ tsess[t] # tsess[u])
            => /\ pc[u] = "lock" => ENABLED Acquire(u)
               /\ pc[u] = "write" => ENABLED WriteOk(u)

\* C12 witness: two call_tool wait for their responses at the same time, one
\* on the stdio session and one on the HTTP session, the second one's frame
\* written after the first one's.
C12_Witness ==
    /\ pc["c1"] = "read" /\ tsess["c1"] = "a" /\ sstate["a"] = "stdio"
    /\ pc["c2"] = "read" /\ tsess["c2"] = "b" /\ sstate["b"] = "http"
    /\ elapsed["c1"] > elapsed["c2"]

\* C13: when the configuration file is missing or cannot be parsed, load
\* returns the empty manager and attempts no connect: no session is made (no
\* process spawned, no HTTP client built) and no frame is sent, whatever
\* servers the text of a malformed file names.
C13_NoConfigNoConnect ==
    cfgsrc # "ok" =>
        /\ lpc \in {"config", "done"}
        /\ manager = <<>>
        /\ \A s \in Servers :
              sstate[s] = "none" /\ wire[s] = <<>> /\ connres[s] = "none"
        /\ pc[Load] = "idle"

\* C13 witness: load has returned on a malformed file that names two servers.
C13_Witness ==
    /\ cfgsrc = "malformed" /\ lpc = "done" /\ manager = <<>>
    /\ Len(order) = 2 /\ TransportOf(cfg[order[1]]) = "stdio"

\* the number of tools of the sessions before the i-th of the manager
RECURSIVE Offset(_)
Offset(i) == IF i <= 1 THEN 0 ELSE Offset(i - 1) + Len(tools[manager[i - 1]])

\* C14: all_tools returns one (session, tool) pair for every tool of every
\* session of the manager and nothing else, the sessions in the manager's
\* order and the tools of a session in its catalog's order; its length is
\* the sum of the lengths of the catalogs.
C14_AllToolsFlat ==
    all_out # None =>
        /\ Len(all_out.val) = Offset(Len(manager) + 1)
        /\ \A i \in DOMAIN manager : \A j \in DOMAIN tools[manager[i]] :
              all_out.val[Offset(i) + j] = <<manager[i], tools[manager[i]][j]>>

\* C14 witness: all_tools has returned the pairs of two sessions, the first
\* with two tools and the second with one.
C14_Witness ==
    /\ all_out # None /\ Len(manager) = 2
    /\ Len(tools[manager[1]]) = 2 /\ Len(tools[manager[2]]) = 1
    /\ Len(all_out.val) = 3
    /\ all_out.val[3] = <<manager[2], tools[manager[2]][1]>>

\* the object with the key `alias`, if it has it and not `name`, renamed `name`
Renamed(obj, alias, name) ==
    IF obj.kind = "object" /\ alias \in DOMAIN obj.fields /\ name \notin DOMAIN obj.fields
    THEN JObj([k \in (DOMAIN obj.fields \ {alias}) \cup {name} |->
                  IF k = name THEN obj.fields[alias] ELSE obj.fields[k]])
    ELSE obj

\* a server entry with the canonical keys for the aliases
CanonicalEntry(e) ==
    Renamed(Renamed(e, "protocolVersion", "protocol_version"), "url", "endpoint")

\* a document with the canonical keys for the aliases
CanonicalDoc(d) ==
    LET top == Renamed(d, "defaultProtocolVersion", "default_protocol_version")
    IN  IF top.kind = "object" /\ "mcpServers" \in DOMAIN top.fields
           /\ top.fields["mcpServers"].kind = "object"
        THEN JObj([k \in DOMAIN top.fields |->
                      IF k = "mcpServers"
                      THEN JObj([n \in DOMAIN top.fields[k].fields |->
                                    CanonicalEntry(top.fields[k].fields[n])])
                      ELSE top.fields[k]])
        ELSE top

\* C15: for every document the parse accepts, the keys an entry leaves out
\* have their defaults (transport "stdio", no protocol version, no request
\* timeout, which resolves to 120, empty command, endpoint, args, env and
\* headers, no default version), and a document written with the aliases
\* protocolVersion, url and defaultProtocolVersion parses to the same value
\* as the document written with the canonical keys.
C15_ParseDefaultsAndAliases ==
    (parsed # None /\ parsed.ok) =>
        /\ \A n \in DOMAIN parsed.val.mcp_servers :
              LET keys == DOMAIN doc.fields["mcpServers"].fields[n].fields
                  c == parsed.val.mcp_servers[n]
              IN  /\ "transport" \notin keys => c.transport = "stdio"
                  /\ keys \cap {"protocol_version", "protocolVersion"} = {}
                         => c.protocol_version = None
                  /\ "request_timeout_secs" \notin keys
                         => c.request_timeout_secs = None /\ TimeoutSecs(c) = 120
                  /\ "command" \notin keys => c.command = ""
                  /\ keys \cap {"endpoint", "url"} = {} => c.endpoint = ""
                  /\ "args" \notin keys => Len(c.args) = 0
                  /\ "env" \notin keys => DOMAIN c.env = {}
                  /\ "headers" \notin keys => DOMAIN c.headers = {}
        /\ DOMAIN doc.fields \cap {"default_protocol_version", "defaultProtocolVersion"} = {}
               => parsed.val.default_protocol_version = None
        /\ ParseConfig(CanonicalDoc(doc)) = parsed

\* C15 witness: a document written with the three aliases and nothing else
\* but the command is accepted, with the values of the aliases in the fields
\* and the defaults in the others.
C15_Witness ==
    /\ parsed # None /\ parsed.ok
    /\ DOMAIN doc.fields = {"defaultProtocolVersion", "mcpServers"}
    /\ DOMAIN doc.fields["mcpServers"].fields["a"].fields
           = {"protocolVersion", "url", "command"}
    /\ parsed.val.default_protocol_version = JStr("2025-03-26")
    /\ parsed.val.mcp_servers["a"].endpoint = "http://h/mcp"
    /\ parsed.val.mcp_servers["a"].protocol_version = JStr("2024-11-05")
    /\ parsed.val.mcp_servers["a"].transport = "stdio"

\* the initialize frames a session has emitted
InitializeFrames(s) ==
    SelectSeq(wire[s], LAMBDA e : e.ev = "frame" /\ e.method = "initialize")

\* the protocolVersion members of the results initialize has got
ReturnedVersions(s) ==
    LET r == SelectSeq(wire[s], LAMBDA e : e.ev = "result")
    IN  [i \in DOMAIN r |-> r[i].protocolVersion]

\* C16: the protocol version a session asks for in the params of initialize
\* is the version of the server's entry when it sets one, otherwise the
\* manager's default when the configuration sets one, otherwise "2025-11-05".
C16_RequestedVersion ==
    \A s \in Servers :
        LET f == InitializeFrames(s)
            version == IF cfg[s].protocol_version # None THEN cfg[s].protocol_version.s
                       ELSE IF default_pv # None THEN default_pv.s
                       ELSE "2025-11-05"
        IN  \A i \in DOMAIN f :
                Get(f[i].params, "protocolVersion") = JStr(version)

\* C16 witness: with a manager default set, the server with a version of its
\* own has asked for its own and the server with none for the default.
C16_Witness ==
    /\ default_pv = JStr("2025-03-26")
    /\ cfg["a"].protocol_version = JStr("2024-11-05")
    /\ cfg["b"].protocol_version = None
    /\ Len(InitializeFrames("a")) = 1 /\ Len(InitializeFrames("b")) = 1
    /\ Get(InitializeFrames("a")[1].params, "protocolVersion") = JStr("2024-11-05")
    /\ Get(InitializeFrames("b")[1].params, "protocolVersion") = JStr("2025-03-26")

\* C17: after a successful connect the session's negotiated protocol is the
\* protocolVersion string of the result of initialize, or the requested
\* version when the result has none (or one that is no string); the
\* requested version is still the one initialize asked for; and whatever
\* version the server answers, the handshake goes on to tools/list.
C17_NegotiatedVersion ==
    \A s \in Servers :
        /\ connres[s] = "ok" =>
            /\ Len(InitializeFrames(s)) = 1 /\ Len(ReturnedVersions(s)) = 1
            /\ Get(InitializeFrames(s)[1].params, "protocolVersion") = JStr(requested[s])
            /\ LET v == ReturnedVersions(s)[1]
               IN  negotiated[s] = IF v.kind = "string" THEN v.s ELSE requested[s]
        /\ (connres[s] = "err" /\ Len(ReturnedVersions(s)) = 1) =>
               \E i \in DOMAIN wire[s] :
                   wire[s][i].ev = "frame" /\ wire[s][i].method = "tools/list"

\* C17 witness: a server asked for "2025-11-05" has answered "2024-01-01";
\* the connect has succeeded, with "2024-01-01" negotiated and "2025-11-05"
\* requested.
C17_Witness ==
    \E s \in Servers :
        /\ connres[s] = "ok" /\ \E i \in DOMAIN manager : manager[i] = s
        /\ ReturnedVersions(s) = <<JStr("2024-01-01")>>
        /\ negotiated[s] = "2024-01-01"
        /\ requested[s] = "2025-11-05"

\* the positions of a session's frames with this method
FramesWith(s, method) == {i \in DOMAIN FramesOf(s) : FramesOf(s)[i].method = method}

\* C18: a session emits only initialize, notifications/initialized,
\* tools/list and tools/call; initialize and tools/list at most once each;
\* every frame after the handshake (after tools/list, the handshake's last
\* frame) is a tools/call request, a frame with an id.
C18_MethodsEmitted ==
    \A s \in Servers :
        LET f == FramesOf(s)
        IN  /\ \A i \in DOMAIN f :
                   f[i].method \in {"initialize", "notifications/initialized",
                                    "tools/list", "tools/call"}
            /\ Cardinality(FramesWith(s, "initialize")) <= 1
            /\ Cardinality(FramesWith(s, "tools/list")) <= 1
            /\ \A i \in FramesWith(s, "tools/list") :
                   \A j \in DOMAIN f :
                       j > i => f[j].method = "tools/call" /\ IsRequestFrame(f[j])
            /\ \A j \in FramesWith(s, "tools/call") :
                   j > 3 /\ [i \in 1..3 |-> f[i].method] = HandshakeMethods

\* C18 witness: both sessions have emitted the three frames of the handshake
\* and then two tools/call requests.
C18_Witness ==
    \A s \in Servers :
        /\ Len(FramesOf(s)) = 5
        /\ FramesWith(s, "tools/call") = {4, 5}
        /\ sstate["a"] = "stdio" /\ sstate["b"] = "http"

\* the manager holds the session of s
Retained(s) == \E i \in DOMAIN manager : manager[i] = s

\* this step ends the connect of s in a failure
ConnectFails(s) == connres[s] = "none" /\ connres'[s] \in {"err", "timeout"}

\* a response whose result has no tools array
NoToolsArray(line) ==
    /\ line.kind = "json" /\ line.error = None
    /\ ~IsSome(AsArray(Get(IF IsSome(line.result) THEN line.result ELSE JNull, "tools")))

\* the connect of s reads this answer to its tools/list
ListAnswered(s, line) ==
    /\ lpc = "connecting" /\ order[lidx] = s /\ phase = "list"
    /\ \/ ReadLine(Load, line) /\ ReadVerdict(line, tid[Load]) # "skip"
       \/ HttpResponse(Load, 200, line)

\* C19: a failure during connect discards the session and stops the
\* handshake where it is: after a failed initialize the session has sent
\* neither notifications/initialized nor tools/list, after a failed
\* notification no tools/list; a connect succeeds only by reading an answer
\* to its tools/list whose result has a tools array; a session whose connect
\* has failed is not retained, sends no frame any more, and no call_tool can
\* start on it.
C19_FailureDiscards ==
    /\ [](\A s \in Servers :
             connres[s] \in {"err", "timeout"} =>
                 /\ ~Retained(s) /\ sstate[s] \in {"none", "dropped"}
                 /\ \A t \in Callers : ~ENABLED CallTool(t, s))
    /\ [][\A s \in Servers :
             /\ ConnectFails(s) =>
                   /\ ~Retained(s)' /\ sstate'[s] \in {"none", "dropped"}
                   /\ phase' = "none" /\ pc'[Load] = "idle"
                   /\ FramesOf(s)' = FramesOf(s)
                   /\ phase = "initialize" =>
                          /\ FramesWith(s, "notifications/initialized") = {}
                          /\ FramesWith(s, "tools/list") = {}
                   /\ phase = "notify" => FramesWith(s, "tools/list") = {}
             /\ connres[s] \in {"err", "timeout"} =>
                   /\ FramesOf(s)' = FramesOf(s)
                   /\ connres'[s] = connres[s]
             /\ (connres[s] = "none" /\ connres'[s] = "ok") =>
                   \E line \in Lines : ~NoToolsArray(line) /\ ListAnswered(s, line)
          ]_vars

\* C19 witness: load has returned; the connect of one server failed at
\* initialize, with the one frame sent, the connect of the other after its
\* tools/list was sent and answered; the manager holds neither.
C19_Witness ==
    /\ lpc = "done" /\ manager = <<>>
    /\ \E s, x \in Servers :
          /\ connres[s] = "err" /\ connres[x] = "err"
          /\ Len(FramesOf(s)) = 1
          /\ Len(FramesOf(x)) = 3 /\ wire[x][Len(wire[x])] = End(2, "end")
          /\ sstate[s] = "dropped" /\ sstate[x] = "dropped"

\* C20: for a 2xx response with a JSON body, send_request fails with the
\* RPC error when the body has a JSON-RPC error, returns the body's result
\* when the body has a result, and otherwise, the body having neither,
\* returns the whole body as the result.
C20_BodyWithoutResultReturned ==
    (h_out # None /\ IsSuccess(h_status) /\ h_body.kind \notin {"empty", "garbage"})
        => h_out = IF IsSome(h_body.error) /\ h_body.error # BadErr
                   THEN RErr(RpcErrorText(h_body.error))
                   ELSE IF IsSome(h_body.result) THEN ROk(h_body.result)
                   ELSE ROk(BodyValue(h_body))

\* C21: the stdio reader takes a line for a response only when it carries
\* result or error: no stdio request ends on a line with neither, whatever
\* the id of the line.
C21_ResponseHasResultOrError ==
    \A t \in Callers :
        (pc[t] = "done" /\ sstate[tsess[t]] = "stdio" /\ answer[t] # NoLine)
            => IsSome(answer[t].result) \/ IsSome(answer[t].error)

\* the ids of the requests on s that have failed because the child's stdout
\* reached its end or because the HTTP server answered with an error status
ClosedIds(s) ==
    {wire[s][i].id : i \in {j \in DOMAIN wire[s] : wire[s][j].ev \in {"eof", "status"}}}

\* C22: once a request on a session has failed by the child's end of file or
\* by an HTTP error status, no later request on that session returns
\* success.
C22_DeadAfterClose ==
    \A t \in Callers :
        (pc[t] = "done" /\ out[t].ok) => \A id \in ClosedIds(tsess[t]) : id > tid[t]

\* a request is in flight on s: it holds the session, from its lock to its end
InFlight(s) == {t \in Tasks : pc[t] \in {"write", "read"} /\ tsess[t] = s}

\* C23: the transport lock of a session is held only by a request in flight
\* on it: after a request has ended, in whatever way (success, RPC error,
\* timeout, write or read error, cancellation), the lock is free, and a
\* request waiting for a session with no request in flight can take it.
C23_LockReleased ==
    /\ \A s \in Servers : lock[s] # NoTask => lock[s] \in InFlight(s)
    /\ \A t \in Callers :
          /\ pc[t] \in {"done", "cancelled"} => lock[tsess[t]] # t
          /\ (pc[t] = "lock" /\ InFlight(tsess[t]) = {}) => ENABLED Acquire(t)

\* C23 witness: a request of one task has run into its timeout on the stdio
\* session; a later request of the other task on that session was sent and
\* has returned its result.
C23_Witness ==
    /\ pc["c1"] = "done" /\ tsess["c1"] = "a"
    /\ out["c1"] = Err("MCP server response timeout (120s)")
    /\ pc["c2"] = "done" /\ tsess["c2"] = "a" /\ out["c2"].ok
    /\ tid["c2"] > tid["c1"]
    /\ lock["a"] = NoTask /\ ~Closed("a")

\* C24: a server entry with an unknown transport, a stdio entry with an
\* empty command or an HTTP entry with an empty endpoint never gets a
\* transport (no child, no HTTP client) and never a frame; once tried its
\* connect has failed, it is not in the manager, and when load returns every
\* other server has been tried all the same.
C24_ConfigErrorNoEffect ==
    \A s \in Servers :
        cfg[s] \in BadConfigs =>
            /\ sstate[s] = "none" /\ wire[s] = <<>> /\ next_id[s] = 0
            /\ lock[s] = NoTask /\ ~Retained(s)
            /\ connres[s] \in {"none", "err"}
            /\ (lpc = "done" /\ cfgsrc = "ok") =>
                   \A i \in DOMAIN order :
                       /\ connres[order[i]] # "none"
                       /\ order[i] = s => connres[s] = "err"

\* C24 witness: load has returned; the first server, a stdio entry with a
\* blank command, was rejected, the second is the one server of the manager.
C24_Witness ==
    /\ lpc = "done" /\ cfgsrc = "ok" /\ Len(order) = 2
    /\ cfg[order[1]] = McpServerConfig("", "  ", "", None, None)
    /\ connres[order[1]] = "err" /\ sstate[order[1]] = "none" /\ wire[order[1]] = <<>>
    /\ manager = <<order[2]>>

\* C25: a stdio request answered on its own id with a JSON-RPC error object
\* ends there: call_tool returns the error with the object's code and
\* message and no further line is read for it; and a request that has
\* returned an RPC error got it on a line with its own id (or with none):
\* an error response with another numeric id fails no request.
C25_RpcErrorSurfaced ==
    \A t \in Callers :
        (pc[t] = "done" /\ sstate[tsess[t]] = "stdio") =>
            /\ (answer[t].id = JNum(tid[t]) /\ answer[t].error = ErrObj) =>
                   /\ out[t] = Err("MCP error (-32000): boom")
                   /\ ~ENABLED (\E line \in Lines : ReadLine(t, line))
                   /\ lock[tsess[t]] # t
            /\ out[t] = Err("MCP error (-32000): boom") =>
                   /\ answer[t].error = ErrObj
                   /\ answer[t].id.kind = "number" => answer[t].id.n = tid[t]

\* C25 witness: request 4 has passed over the late error response to request
\* 3, which was given up, and has failed on the error response to 4.
C25_Witness ==
    \E t \in Callers :
        /\ pc[t] = "done" /\ sstate[tsess[t]] = "stdio"
        /\ tid[t] = 4 /\ Abandoned(tsess[t], 3) /\ "stale" \in skipped[t]
        /\ answer[t].id = JNum(4) /\ answer[t].error = ErrObj
        /\ out[t] = Err("MCP error (-32000): boom")

\* C26: a stdio request that has taken the session has ended 120 seconds
\* later at the latest, whatever the server does: neither its write nor its
\* wait for the response is pending for longer.
C26_WriteUnderDeadline ==
    \A t \in Callers :
        (pc[t] \in {"write", "read"} /\ sstate[tsess[t]] = "stdio")
            => elapsed[t] <= StdioDeadlineSecs

\* C27: the deadline of a stdio request is taken once, when its frame is
\* out: a line that is passed over leaves the time waited as it is, the wait
\* never lasts longer than 120 seconds, and at 120 seconds the timeout can
\* fire whatever lines were passed over.
C27_DeadlineFixedOnce ==
    /\ [](\A t \in Callers :
             (pc[t] = "read" /\ sstate[tsess[t]] = "stdio") =>
                 /\ elapsed[t] <= StdioDeadlineSecs
                 /\ elapsed[t] = StdioDeadlineSecs =>
                        ENABLED Timeout(t) /\ ~ENABLED (Tick /\ lpc = "done"))
    /\ [][\A t \in Callers :
             (pc[t] = "read" /\ pc'[t] = "read" /\ sstate[tsess[t]] = "stdio") =>
                 /\ elapsed'[t] >= elapsed[t]
                 /\ skipped'[t] # skipped[t] => elapsed'[t] = elapsed[t]
          ]_vars

\* C27 witness: a request has passed over an empty line, a malformed line and
\* a notification and has failed with the timeout.
C27_Witness ==
    \E t \in Callers :
        /\ pc[t] = "done" /\ sstate[tsess[t]] = "stdio"
        /\ {"empty", "garbage", "notification"} \subseteq skipped[t]
        /\ out[t] = Err("MCP server response timeout (120s)")
        /\ answer[t] = NoLine

\* the ids of the frames a session has emitted, in order (0: no id)
FrameIds(s) == [i \in DOMAIN FramesOf(s) |-> FramesOf(s)[i].id]

\* task t takes session s in this step
Acquires(t, s) == pc[t] = "lock" /\ pc'[t] = "write" /\ tsess[t] = s

\* C28: notifications take no request id. On a session whose handshake
\* succeeded initialize has id 1, notifications/initialized none, tools/list
\* id 2; the session comes out of the handshake with 3 as its next id; from
\* then on the next id changes only when a tools/call takes the session,
\* which gets that id and moves the next id on by one, whatever became of
\* the requests before; every tools/call frame carries the id its request
\* took.
C28_IdsCountRequests ==
    /\ [](\A s \in Servers :
             Retained(s) =>
                 /\ SubSeq(FrameIds(s), 1, 3) = <<1, 0, 2>>
                 /\ next_id[s] >= 3
                 /\ \A i \in FramesWith(s, "tools/call") :
                        FrameIds(s)[i] \in 3..(next_id[s] - 1)
                 /\ \A t \in Callers :
                        (pc[t] \in {"write", "read"} /\ tsess[t] = s) =>
                            tid[t] = next_id[s] - 1)
    /\ [][\A s \in Servers :
             /\ (~Retained(s) /\ Retained(s)') => next_id'[s] = 3
             /\ Retained(s) =>
                   /\ \A t \in Callers :
                          Acquires(t, s) =>
                              tid'[t] = next_id[s] /\ next_id'[s] = next_id[s] + 1
                   /\ next_id'[s] # next_id[s] => \E t \in Callers : Acquires(t, s)
          ]_vars

\* C28 witness: on a session the first tools/call, with id 3, failed at its
\* write, and the second has written its frame, with id 4.
C28_Witness ==
    \E s \in Servers :
        /\ Retained(s)
        /\ FrameIds(s) = <<1, 0, 2, 4>>
        /\ next_id[s] = 5

====
